---------------------------- MODULE Spec2Model ----------------------------
(***************************************************************************)
(* Model of the BGH Smart Home Assistant integration                       *)
(* (custom_components/bgh_smart): the climate entity BghHVAC, its commands *)
(* run sequentially and on two worker threads, and the config flow's user  *)
(* step.                                                                   *)
(*                                                                         *)
(* Python values: None is the integer None (-1) where a number is          *)
(* expected and the string NoneStr where a string is expected; Truthy and  *)
(* TruthyStr are Python's truth tests on them.                             *)
(***************************************************************************)
EXTENDS Integers, Sequences, FiniteSets, TLC

VARIABLES
    exists,     \* the BghHVAC object has been constructed
    hvac,       \* the fields of the BghHVAC object
    raised,     \* how the last operation ended: "none" or "KeyError"
    lastop,     \* the last operation run and its inputs
    client,     \* the vendor client: the set_mode calls it has received
    nops,       \* operations run on the entity since its construction
    thr,        \* the worker threads running commands (concurrent runs)
    entries,    \* the host's config entries (config flow)
    flow        \* the result of the config flow's last user step

vars == <<exists, hvac, raised, lastop, client, nops, thr, entries, flow>>

-----------------------------------------------------------------------------
(* Python values *)

None == -1
NoneStr == "<None>"

Truthy(x) == x # None /\ x # 0
TruthyStr(s) == s # NoneStr /\ s # ""

-----------------------------------------------------------------------------
(* Bounds and the inputs drawn from them *)

\* operations run on one entity after its construction
MaxOps == 3

DeviceIds == {"d1", "d2"}
CurTemps == {22, 26}
TargetTemps == {24, 25}
ModeCodes == {1, 2, 254, 5}
FanCodes == {2, 3, 0}

\* device records as get_devices / get_status return them: with the detailed
\* data, and without it (raw_data falsy, whatever else the record holds)
RawRecords ==
    [raw_data : {TRUE}, temperature : CurTemps, target_temperature : TargetTemps,
     mode_id : ModeCodes, fan_speed : FanCodes]

NoRawRecords ==
    [raw_data : {FALSE}, temperature : {26}, target_temperature : {25},
     mode_id : {2, 5}, fan_speed : {3}]

Records == RawRecords \cup NoRawRecords

NoRecord ==
    [raw_data |-> FALSE, temperature |-> None, target_temperature |-> None,
     mode_id |-> None, fan_speed |-> None]

\* arguments of the commands
CmdTemps == {None, 0, 20}
CmdModes == {"heat", "off"}
CmdFans == {"low", "high"}

-----------------------------------------------------------------------------
(* climate.py: the mapping tables *)

\* mutant: the codes of cool and heat exchanged
MAP_MODE_ID_Swapped ==
    (0 :> "off") @@ (1 :> "heat") @@ (2 :> "cool") @@ (3 :> "dry")
    @@ (4 :> "fan_only") @@ (254 :> "auto")

MAP_MODE_ID ==
    (0 :> "off") @@ (1 :> "cool") @@ (2 :> "heat") @@ (3 :> "dry")
    @@ (4 :> "fan_only") @@ (254 :> "auto")

MAP_FAN_MODE_ID ==
    (1 :> "low") @@ (2 :> "medium") @@ (3 :> "high") @@ (254 :> "auto")

STATE_UNKNOWN == "unknown"
FAN_AUTO == "auto"

-----------------------------------------------------------------------------
(* climate.py: BghHVAC *)

\* the object's fields as __init__ sets them before it calls _parse_data
InitFields(device, device_id) ==
    [device |-> device, device_id |-> device_id,
     min_temp |-> None, max_temp |-> None,
     current_temperature |-> None, target_temperature |-> None,
     mode |-> STATE_UNKNOWN, fan_speed |-> FAN_AUTO]

\* the fields of an object that does not exist
Blank == InitFields(NoRecord, NoneStr)

\* mutant: _parse_data without its raw_data test
ParseData_IgnoreRawData(e) ==
    LET e0 == [e EXCEPT !.min_temp = 17, !.max_temp = 30]
        d == e.device
        e2 == [e0 EXCEPT !.current_temperature = d.temperature,
                         !.target_temperature = d.target_temperature]
        e3 == [e2 EXCEPT !.mode = MAP_MODE_ID[d.mode_id]]
        e4 == [e3 EXCEPT !.fan_speed = MAP_FAN_MODE_ID[d.fan_speed]]
    IN  IF d.mode_id \notin DOMAIN MAP_MODE_ID
        THEN [e |-> e2, raised |-> "KeyError"]
        ELSE IF d.fan_speed \notin DOMAIN MAP_FAN_MODE_ID
             THEN [e |-> e3, raised |-> "KeyError"]
        ELSE [e |-> e4, raised |-> "none"]

\* mutant: _parse_data setting the temperature bounds only with the detailed data
ParseData_BoundsWithData(e) ==
    LET d == e.device
        e0 == [e EXCEPT !.min_temp = 17, !.max_temp = 30]
        e2 == [e0 EXCEPT !.current_temperature = d.temperature,
                         !.target_temperature = d.target_temperature]
        e3 == [e2 EXCEPT !.mode = MAP_MODE_ID[d.mode_id]]
        e4 == [e3 EXCEPT !.fan_speed = MAP_FAN_MODE_ID[d.fan_speed]]
    IN  IF ~d.raw_data THEN [e |-> e, raised |-> "none"]
        ELSE IF d.mode_id \notin DOMAIN MAP_MODE_ID
             THEN [e |-> e2, raised |-> "KeyError"]
        ELSE IF d.fan_speed \notin DOMAIN MAP_FAN_MODE_ID
             THEN [e |-> e3, raised |-> "KeyError"]
        ELSE [e |-> e4, raised |-> "none"]

\* _parse_data, statement by statement: a failed lookup (KeyError) ends it
\* and keeps the assignments made before it
ParseData(e) ==
    LET e0 == [e EXCEPT !.min_temp = 17, !.max_temp = 30]
        d == e.device
        e1 == [e0 EXCEPT !.current_temperature = d.temperature]
        e2 == [e1 EXCEPT !.target_temperature = d.target_temperature]
        e3 == [e2 EXCEPT !.mode = MAP_MODE_ID[d.mode_id]]
        e4 == [e3 EXCEPT !.fan_speed = MAP_FAN_MODE_ID[d.fan_speed]]
    IN  IF ~d.raw_data THEN [e |-> e0, raised |-> "none"]
        ELSE IF d.mode_id \notin DOMAIN MAP_MODE_ID
             THEN [e |-> e2, raised |-> "KeyError"]
        ELSE IF d.fan_speed \notin DOMAIN MAP_FAN_MODE_ID
             THEN [e |-> e3, raised |-> "KeyError"]
        ELSE [e |-> e4, raised |-> "none"]

\* mutant: update parsing the record it already held
UpdateFields_StaleDevice(e, rec) == ParseData(e)

\* mutant: update keeping a target temperature that is already set
UpdateFields_KeepCommanded(e, rec) ==
    LET r == ParseData([e EXCEPT !.device = rec])
    IN  [r EXCEPT !.e.target_temperature =
                      IF e.target_temperature # None
                      THEN e.target_temperature ELSE @]

\* update: the record get_status returned replaces _device, then _parse_data
UpdateFields(e, rec) == ParseData([e EXCEPT !.device = rec])

\* set_mode: the one call to the vendor client, with the fields as they are
SetModeCall(e) == <<e.device_id, e.mode, e.target_temperature, e.fan_speed>>

\* mutant: set_mode sending the default fan speed
CallArgs_DefaultFan(e, th) == <<e.device_id, th.r_mode, th.r_target, FAN_AUTO>>

\* set_mode on a worker thread: the call's arguments are the attribute values
\* the thread read, one after the other
CallArgs(e, th) == <<e.device_id, th.r_mode, th.r_target, th.r_fan>>

\* the vendor client after it received a set_mode call
Receive(c, call) == [ncalls |-> c.ncalls + 1, lastcall |-> call]

\* set_temperature's assignments
SetTemperatureFields(e, temperature, operation_mode) ==
    LET e1 == IF Truthy(temperature)
              THEN [e EXCEPT !.target_temperature = temperature] ELSE e
    IN  IF TruthyStr(operation_mode) THEN [e1 EXCEPT !.mode = operation_mode] ELSE e1

\* set_hvac_mode's assignment
SetHvacModeFields(e, operation_mode) == [e EXCEPT !.mode = operation_mode]

\* set_fan_mode's assignment
SetFanModeFields(e, fan_mode) == [e EXCEPT !.fan_speed = fan_mode]

\* an operation and its inputs (thread 0: the caller of a sequential run)
Op(op, rec, temperature, arg, thread) ==
    [op |-> op, rec |-> rec, temperature |-> temperature, arg |-> arg,
     thread |-> thread]

NoOp == Op("none", NoRecord, None, NoneStr, 0)

Threads == {1, 2}

NoThread ==
    [pc |-> "idle", op |-> "none", temperature |-> None, arg |-> NoneStr,
     r_mode |-> NoneStr, r_target |-> None, r_fan |-> NoneStr]

NoThreads == [t \in Threads |-> NoThread]

\* the first statement of a command
FirstPc(op) ==
    CASE op = "set_temperature" -> "temperature"
      [] op = "set_hvac_mode" -> "mode"
      [] op = "set_fan_mode" -> "fan_speed"

NoInput == [username |-> NoneStr, password |-> NoneStr]

\* what a user step returns (errors: the errors dict as a set of pairs), with the
\* input it was given, whether it constructed a vendor client and the token
\* that client exposed
FlowResult(type, title, data, errors, input, client_made, token) ==
    [type |-> type, title |-> title, data |-> data, errors |-> errors,
     input |-> input, client_made |-> client_made, token |-> token]

NoFlow == FlowResult("none", NoneStr, NoInput, {}, NoInput, FALSE, NoneStr)


-----------------------------------------------------------------------------
(* The entity, one operation at a time *)

Init ==
    /\ exists = FALSE
    /\ hvac = Blank
    /\ raised = "none"
    /\ lastop = NoOp
    /\ client = [ncalls |-> 0, lastcall |-> <<>>]
    /\ nops = 0
    /\ thr = NoThreads
    /\ entries = {}
    /\ flow = NoFlow

\* BghHVAC(device, client): no object when _parse_data raises
Construct(rec, id) ==
    /\ ~exists
    /\ LET r == ParseData(InitFields(rec, id))
       IN  /\ raised' = r.raised
           /\ exists' = (r.raised = "none")
           /\ hvac' = IF r.raised = "none" THEN r.e ELSE Blank
    /\ lastop' = Op("construct", rec, None, NoneStr, 0)
    /\ UNCHANGED <<client, nops, thr, entries, flow>>

Update(rec) ==
    /\ exists
    /\ nops < MaxOps
    /\ nops' = nops + 1
    /\ LET r == UpdateFields(hvac, rec)
       IN  /\ hvac' = r.e
           /\ raised' = r.raised
    /\ lastop' = Op("update", rec, None, NoneStr, 0)
    /\ UNCHANGED <<exists, client, thr, entries, flow>>

SetTemperature(temperature, operation_mode) ==
    /\ exists
    /\ nops < MaxOps
    /\ nops' = nops + 1
    /\ LET e == SetTemperatureFields(hvac, temperature, operation_mode)
       IN  /\ hvac' = e
           /\ client' = Receive(client, SetModeCall(e))
    /\ raised' = "none"
    /\ lastop' = Op("set_temperature", NoRecord, temperature, operation_mode, 0)
    /\ UNCHANGED <<exists, thr, entries, flow>>

SetHvacMode(operation_mode) ==
    /\ exists
    /\ nops < MaxOps
    /\ nops' = nops + 1
    /\ LET e == SetHvacModeFields(hvac, operation_mode)
       IN  /\ hvac' = e
           /\ client' = Receive(client, SetModeCall(e))
    /\ raised' = "none"
    /\ lastop' = Op("set_hvac_mode", NoRecord, None, operation_mode, 0)
    /\ UNCHANGED <<exists, thr, entries, flow>>

SetFanMode(fan_mode) ==
    /\ exists
    /\ nops < MaxOps
    /\ nops' = nops + 1
    /\ LET e == SetFanModeFields(hvac, fan_mode)
       IN  /\ hvac' = e
           /\ client' = Receive(client, SetModeCall(e))
    /\ raised' = "none"
    /\ lastop' = Op("set_fan_mode", NoRecord, None, fan_mode, 0)
    /\ UNCHANGED <<exists, thr, entries, flow>>

Next ==
    \/ \E rec \in Records, id \in DeviceIds : Construct(rec, id)
    \/ \E rec \in Records : Update(rec)
    \/ \E t \in CmdTemps, m \in CmdModes \cup {NoneStr} : SetTemperature(t, m)
    \/ \E m \in CmdModes : SetHvacMode(m)
    \/ \E f \in CmdFans : SetFanMode(f)

Spec == Init /\ [][Next]_vars

-----------------------------------------------------------------------------
(* The mapping tables over every code: construction and refresh alone *)

TableCodes == (0 .. 6) \cup {253, 254, 255}

TableRecords ==
    [raw_data : {TRUE}, temperature : {22}, target_temperature : {24},
     mode_id : TableCodes, fan_speed : TableCodes]

NextTable ==
    \/ \E rec \in TableRecords : Construct(rec, "d1")
    \/ \E rec \in TableRecords : Update(rec)

SpecTable == Init /\ [][NextTable]_vars

-----------------------------------------------------------------------------
(* Two commands on one entity, each on its own worker thread.  A thread     *)
(* runs its command statement by statement; set_mode evaluates its          *)
(* arguments one attribute read at a time and then calls the vendor client. *)

\* the records the entity of a concurrent run was constructed from
ConcRecords ==
    {[raw_data |-> TRUE, temperature |-> 22, target_temperature |-> 24,
      mode_id |-> 1, fan_speed |-> 2],
     [raw_data |-> FALSE, temperature |-> 26, target_temperature |-> 25,
      mode_id |-> 2, fan_speed |-> 3]}

ConcTemps == {0, 20, 21}
ConcModes == {"heat", "off"}
ConcFans == {"low", "high"}

InitConc ==
    /\ exists = TRUE
    /\ \E rec \in ConcRecords : hvac = ParseData(InitFields(rec, "d1")).e
    /\ raised = "none"
    /\ lastop = NoOp
    /\ client = [ncalls |-> 0, lastcall |-> <<>>]
    /\ nops = 0
    /\ thr = NoThreads
    /\ entries = {}
    /\ flow = NoFlow

\* the host hands a command to worker thread t
Begin(t, op, temperature, arg) ==
    /\ thr[t].pc = "idle"
    /\ thr' = [thr EXCEPT ![t] =
                 [pc |-> FirstPc(op), op |-> op, temperature |-> temperature,
                  arg |-> arg, r_mode |-> NoneStr, r_target |-> None,
                  r_fan |-> NoneStr]]
    /\ UNCHANGED <<exists, hvac, raised, lastop, client, nops, entries, flow>>

\* set_temperature: if temperature: self._target_temperature = temperature
WriteTemperature(t) ==
    /\ thr[t].pc = "temperature"
    /\ hvac' = SetTemperatureFields(hvac, thr[t].temperature, NoneStr)
    /\ thr' = [thr EXCEPT ![t].pc = "operation_mode"]
    /\ UNCHANGED <<exists, raised, lastop, client, nops, entries, flow>>

\* set_temperature: if operation_mode: self._mode = operation_mode
WriteOperationMode(t) ==
    /\ thr[t].pc = "operation_mode"
    /\ hvac' = SetTemperatureFields(hvac, None, thr[t].arg)
    /\ thr' = [thr EXCEPT ![t].pc = "read_mode"]
    /\ UNCHANGED <<exists, raised, lastop, client, nops, entries, flow>>

\* set_hvac_mode: self._mode = operation_mode
WriteMode(t) ==
    /\ thr[t].pc = "mode"
    /\ hvac' = SetHvacModeFields(hvac, thr[t].arg)
    /\ thr' = [thr EXCEPT ![t].pc = "read_mode"]
    /\ UNCHANGED <<exists, raised, lastop, client, nops, entries, flow>>

\* set_fan_mode: self._fan_speed = fan_mode
WriteFanSpeed(t) ==
    /\ thr[t].pc = "fan_speed"
    /\ hvac' = SetFanModeFields(hvac, thr[t].arg)
    /\ thr' = [thr EXCEPT ![t].pc = "read_mode"]
    /\ UNCHANGED <<exists, raised, lastop, client, nops, entries, flow>>

\* set_mode's arguments: self._mode, self._target_temperature, self._fan_speed
ReadMode(t) ==
    /\ thr[t].pc = "read_mode"
    /\ thr' = [thr EXCEPT ![t].r_mode = hvac.mode, ![t].pc = "read_target"]
    /\ UNCHANGED <<exists, hvac, raised, lastop, client, nops, entries, flow>>

ReadTarget(t) ==
    /\ thr[t].pc = "read_target"
    /\ thr' = [thr EXCEPT ![t].r_target = hvac.target_temperature,
                          ![t].pc = "read_fan"]
    /\ UNCHANGED <<exists, hvac, raised, lastop, client, nops, entries, flow>>

ReadFan(t) ==
    /\ thr[t].pc = "read_fan"
    /\ thr' = [thr EXCEPT ![t].r_fan = hvac.fan_speed, ![t].pc = "deliver"]
    /\ UNCHANGED <<exists, hvac, raised, lastop, client, nops, entries, flow>>

\* self._client.set_mode(...) with the values read
Deliver(t) ==
    /\ thr[t].pc = "deliver"
    /\ client' = Receive(client, CallArgs(hvac, thr[t]))
    /\ lastop' = Op(thr[t].op, NoRecord, thr[t].temperature, thr[t].arg, t)
    /\ thr' = [thr EXCEPT ![t].pc = "done"]
    /\ UNCHANGED <<exists, hvac, raised, nops, entries, flow>>

NextConc ==
    \/ \E t \in Threads, x \in ConcTemps, m \in ConcModes \cup {NoneStr} :
          Begin(t, "set_temperature", x, m)
    \/ \E t \in Threads, m \in ConcModes : Begin(t, "set_hvac_mode", None, m)
    \/ \E t \in Threads, f \in ConcFans : Begin(t, "set_fan_mode", None, f)
    \/ \E t \in Threads : WriteTemperature(t)
    \/ \E t \in Threads : WriteOperationMode(t)
    \/ \E t \in Threads : WriteMode(t)
    \/ \E t \in Threads : WriteFanSpeed(t)
    \/ \E t \in Threads : ReadMode(t)
    \/ \E t \in Threads : ReadTarget(t)
    \/ \E t \in Threads : ReadFan(t)
    \/ \E t \in Threads : Deliver(t)

SpecConc == InitConc /\ [][NextConc]_vars

-----------------------------------------------------------------------------
(* config_flow.py: BGHSmartConfigFlow.async_step_user *)

Usernames == {"ana", "bob", "eve"}
Passwords == {"pw1", "pw2"}
UserInputs == [username : Usernames, password : Passwords]

\* client.token after pybgh.BghClient(username, password)
Tokens == {NoneStr, "", "tok"}

\* mutant: the token tested with `is not None`
StepUser_TokenNotNone(user_input, token) ==
    IF user_input = NoInput
    THEN FlowResult("form", NoneStr, NoInput, {}, user_input, FALSE, NoneStr)
    ELSE IF user_input.username \in {e.unique_id : e \in entries}
    THEN FlowResult("abort", NoneStr, NoInput, {}, user_input, FALSE, NoneStr)
    ELSE IF token # NoneStr
    THEN FlowResult("create_entry", user_input.username, user_input, {},
                    user_input, TRUE, token)
    ELSE FlowResult("form", NoneStr, NoInput, {<<"base", "auth">>},
                    user_input, TRUE, token)

\* one user step: user_input is NoInput when the step is called without input;
\* token is the token of the client the step constructs, if it gets that far
StepUser(user_input, token) ==
    IF user_input = NoInput
    THEN FlowResult("form", NoneStr, NoInput, {}, user_input, FALSE, NoneStr)
    ELSE IF user_input.username \in {e.unique_id : e \in entries}
    THEN FlowResult("abort", NoneStr, NoInput, {}, user_input, FALSE, NoneStr)
    ELSE IF TruthyStr(token)
    THEN FlowResult("create_entry", user_input.username, user_input, {},
                    user_input, TRUE, token)
    ELSE FlowResult("form", NoneStr, NoInput, {<<"base", "auth">>},
                    user_input, TRUE, token)

\* the host runs the step and stores the entry the step created
AsyncStepUser(user_input, token) ==
    /\ flow' = StepUser(user_input, token)
    /\ entries' =
          IF flow'.type = "create_entry"
          THEN entries \cup {[unique_id |-> user_input.username,
                              title |-> flow'.title, data |-> flow'.data]}
          ELSE entries
    /\ UNCHANGED <<exists, hvac, raised, lastop, client, nops, thr>>

NextFlow ==
    \E i \in UserInputs \cup {NoInput}, k \in Tokens : AsyncStepUser(i, k)

SpecFlow == Init /\ [][NextFlow]_vars

-----------------------------------------------------------------------------
(* Properties *)

\* the cached climate values of the entity
Cached(e) == <<e.current_temperature, e.target_temperature, e.mode, e.fan_speed>>

\* the step just taken is an update, a construction, a command
UpdateStep == lastop'.op = "update" /\ nops' = nops + 1
ConstructStep == lastop'.op = "construct" /\ ~exists /\ nops' = nops
CommandStep ==
    /\ lastop'.op \in {"set_temperature", "set_hvac_mode", "set_fan_mode"}
    /\ nops' = nops + 1

\* the tables as the specification gives them
ExpectedMode(code) ==
    CASE code = 0 -> "off" [] code = 1 -> "cool" [] code = 2 -> "heat"
      [] code = 3 -> "dry" [] code = 4 -> "fan_only" [] code = 254 -> "auto"

ExpectedFan(code) ==
    CASE code = 1 -> "low" [] code = 2 -> "medium" [] code = 3 -> "high"
      [] code = 254 -> "auto"

ModeCodeSet == {0, 1, 2, 3, 4, 254}
FanCodeSet == {1, 2, 3, 254}

\* C1: a user step whose client exposes a non-empty token creates the entry
\* titled by the username with the input as data; a step whose client exposes
\* an empty or missing token creates no entry and shows the form with errors
\* base = "auth"; a step without input shows the form with no errors and
\* constructs no client.
C1_UserStep ==
    [][LET f == flow' IN
       /\ (f.client_made /\ TruthyStr(f.token)) =>
             /\ f.type = "create_entry"
             /\ f.title = f.input.username
             /\ f.data = f.input
             /\ entries' = entries \cup
                   {[unique_id |-> f.input.username, title |-> f.input.username,
                     data |-> f.input]}
       /\ (f.client_made /\ ~TruthyStr(f.token)) =>
             /\ f.type = "form"
             /\ f.errors = {<<"base", "auth">>}
             /\ entries' = entries
       /\ (f.input = NoInput) =>
             /\ f.type = "form"
             /\ f.errors = {}
             /\ ~f.client_made
             /\ entries' = entries
      ]_vars

\* an entry exists, and a later step with an empty token ended in the auth form
C1_Witness ==
    /\ entries # {}
    /\ flow.client_made /\ flow.token = ""
    /\ flow.type = "form" /\ flow.errors = {<<"base", "auth">>}

\* C2: after an update that fetched a record with raw_data truthy and mapped
\* codes, the entity reports the record's temperature, target temperature and
\* the table images of its mode and fan codes, whatever was cached before;
\* {22, 24, 1, 2} gives 22, 24, cool, medium.
C2_UpdateReportsRecord ==
    (/\ lastop.op = "update"
     /\ lastop.rec.raw_data
     /\ lastop.rec.mode_id \in ModeCodeSet
     /\ lastop.rec.fan_speed \in FanCodeSet)
    => /\ hvac.current_temperature = lastop.rec.temperature
       /\ hvac.target_temperature = lastop.rec.target_temperature
       /\ hvac.mode = MAP_MODE_ID[lastop.rec.mode_id]
       /\ hvac.fan_speed = MAP_FAN_MODE_ID[lastop.rec.fan_speed]
       /\ (/\ lastop.rec.temperature = 22 /\ lastop.rec.target_temperature = 24
           /\ lastop.rec.mode_id = 1 /\ lastop.rec.fan_speed = 2)
          => Cached(hvac) = <<22, 24, "cool", "medium">>

\* the example record was fetched after commands had set other values
C2_Witness ==
    /\ lastop.op = "update"
    /\ lastop.rec = [raw_data |-> TRUE, temperature |-> 22,
                     target_temperature |-> 24, mode_id |-> 1, fan_speed |-> 2]
    /\ client.ncalls > 0
    /\ client.lastcall[2] = "off" /\ client.lastcall[3] = 20
    /\ Cached(hvac) = <<22, 24, "cool", "medium">>

\* C3: an update that fetched a record with raw_data falsy leaves the cached
\* current temperature, target temperature, mode and fan speed as they were.
C3_NoRawDataKeepsCache ==
    [][(UpdateStep /\ ~lastop'.rec.raw_data) => Cached(hvac') = Cached(hvac)]_vars

\* values a command set are still cached after a refresh without raw_data
C3_Witness ==
    /\ lastop.op = "update"
    /\ ~lastop.rec.raw_data
    /\ hvac.mode = "off" /\ hvac.target_temperature = 20
    /\ hvac.fan_speed = "high"

\* C4 (as claimed): set_temperature with a temperature and no hvac mode sets
\* the cached target temperature to it, leaves mode and fan speed unchanged and
\* makes one set_mode call with the unchanged mode, the new target temperature
\* and the unchanged fan speed.
C4_SetTemperatureOnly ==
    [][(/\ CommandStep
        /\ lastop'.op = "set_temperature"
        /\ lastop'.temperature # None
        /\ lastop'.arg = NoneStr)
       => /\ hvac'.target_temperature = lastop'.temperature
          /\ hvac'.mode = hvac.mode
          /\ hvac'.fan_speed = hvac.fan_speed
          /\ client'.ncalls = client.ncalls + 1
          /\ client'.lastcall =
                <<hvac.device_id, hvac.mode, lastop'.temperature, hvac.fan_speed>>
      ]_vars

\* C5: a construction or refresh on a raw_data-truthy record translates the
\* codes 0,1,2,3,4,254 to off, cool, heat, dry, fan_only, auto and the fan
\* codes 1,2,3,254 to low, medium, high, auto; with a mode code or a fan code
\* outside its table it ends in a KeyError and produces no value for that
\* code (the field keeps its value, a construction yields no entity).
C5_TablesAndLookupFailure ==
    [][((UpdateStep \/ ConstructStep) /\ lastop'.rec.raw_data) =>
       LET r == lastop'.rec
           mode_ok == r.mode_id \in ModeCodeSet
           fan_ok == r.fan_speed \in FanCodeSet
       IN  /\ (mode_ok /\ fan_ok) =>
                 /\ raised' = "none"
                 /\ exists'
                 /\ hvac'.mode = ExpectedMode(r.mode_id)
                 /\ hvac'.fan_speed = ExpectedFan(r.fan_speed)
           /\ ~mode_ok =>
                 /\ raised' = "KeyError"
                 /\ hvac'.mode = hvac.mode
                 /\ hvac'.fan_speed = hvac.fan_speed
           /\ (mode_ok /\ ~fan_ok) =>
                 /\ raised' = "KeyError"
                 /\ hvac'.fan_speed = hvac.fan_speed
                 /\ UpdateStep => hvac'.mode = ExpectedMode(r.mode_id)
           /\ (ConstructStep /\ ~(mode_ok /\ fan_ok)) =>
                 /\ ~exists'
                 /\ hvac' = Blank
      ]_vars

\* a refresh translated the mode code 4 and failed on the fan code 0, after
\* a refresh that translated the codes 254 and 3
C5_Witness ==
    /\ lastop.op = "update"
    /\ lastop.rec.mode_id = 4 /\ lastop.rec.fan_speed = 0
    /\ raised = "KeyError"
    /\ hvac.mode = "fan_only" /\ hvac.fan_speed = "high"

\* C6: a constructed entity has min_temp 17 and max_temp 30 in every state.
C6_TemperatureBounds == exists => (hvac.min_temp = 17 /\ hvac.max_temp = 30)

\* an entity constructed from a record without raw_data, after a command and a
\* refresh that fetched no raw_data either
C6_Witness ==
    /\ exists
    /\ hvac.current_temperature = None
    /\ client.ncalls > 0
    /\ lastop.op = "update" /\ ~lastop.rec.raw_data
    /\ hvac.min_temp = 17 /\ hvac.max_temp = 30

\* C7 (as claimed): each command updates the local cached value and then makes
\* exactly one set_mode call with the device id and the cached tuple (mode,
\* target temperature, fan speed) as it stands after the update.
C7_UpdateThenPushFullTuple ==
    [][CommandStep =>
       /\ (lastop'.op = "set_temperature" /\ lastop'.temperature # None) =>
             hvac'.target_temperature = lastop'.temperature
       /\ (lastop'.op = "set_temperature" /\ lastop'.arg # NoneStr) =>
             hvac'.mode = lastop'.arg
       /\ lastop'.op = "set_hvac_mode" => hvac'.mode = lastop'.arg
       /\ lastop'.op = "set_fan_mode" => hvac'.fan_speed = lastop'.arg
       /\ client'.ncalls = client.ncalls + 1
       /\ hvac'.device_id = hvac.device_id
       /\ client'.lastcall =
             <<hvac'.device_id, hvac'.mode, hvac'.target_temperature,
               hvac'.fan_speed>>
      ]_vars

\* C7 apart from set_temperature's test of a falsy temperature: the same
\* statement with the target temperature required only of a truthy temperature
C7_ExceptFalsyTemperature ==
    [][CommandStep =>
       /\ (lastop'.op = "set_temperature" /\ Truthy(lastop'.temperature)) =>
             hvac'.target_temperature = lastop'.temperature
       /\ (lastop'.op = "set_temperature" /\ lastop'.arg # NoneStr) =>
             hvac'.mode = lastop'.arg
       /\ lastop'.op = "set_hvac_mode" => hvac'.mode = lastop'.arg
       /\ lastop'.op = "set_fan_mode" => hvac'.fan_speed = lastop'.arg
       /\ client'.ncalls = client.ncalls + 1
       /\ hvac'.device_id = hvac.device_id
       /\ client'.lastcall =
             <<hvac'.device_id, hvac'.mode, hvac'.target_temperature,
               hvac'.fan_speed>>
      ]_vars

\* C8 (as claimed): after an update, however it ends, the four cached values
\* are all taken from the fetched record or all as they were before.
C8_UpdateAllOrNothing ==
    [][UpdateStep =>
       LET r == lastop'.rec IN
       \/ Cached(hvac') = Cached(hvac)
       \/ /\ r.mode_id \in ModeCodeSet
          /\ r.fan_speed \in FanCodeSet
          /\ Cached(hvac') = <<r.temperature, r.target_temperature,
                               MAP_MODE_ID[r.mode_id], MAP_FAN_MODE_ID[r.fan_speed]>>
      ]_vars

\* whether an operation writes the target temperature, the mode, the fan speed,
\* and the value it writes
WritesTarget(o) ==
    \/ o.op = "update" /\ o.rec.raw_data
    \/ o.op = "set_temperature" /\ Truthy(o.temperature)

TargetWritten(o) ==
    IF o.op = "update" THEN o.rec.target_temperature ELSE o.temperature

WritesMode(o) ==
    \/ o.op = "update" /\ o.rec.raw_data /\ o.rec.mode_id \in ModeCodeSet
    \/ o.op = "set_temperature" /\ TruthyStr(o.arg)
    \/ o.op = "set_hvac_mode"

ModeWritten(o) == IF o.op = "update" THEN ExpectedMode(o.rec.mode_id) ELSE o.arg

WritesFan(o) ==
    \/ /\ o.op = "update" /\ o.rec.raw_data
       /\ o.rec.mode_id \in ModeCodeSet /\ o.rec.fan_speed \in FanCodeSet
    \/ o.op = "set_fan_mode"

FanWritten(o) == IF o.op = "update" THEN ExpectedFan(o.rec.fan_speed) ELSE o.arg

\* C9: last write wins, with no conflict resolution: every refresh and every
\* command leaves each of mode, target temperature and fan speed equal to the
\* value this operation wrote, or, if it wrote none, to the value the field
\* held (that of the most recent operation that wrote it); a refresh with
\* raw_data truthy overwrites what a command set.
C9_LastWriteWins ==
    [][(UpdateStep \/ CommandStep) =>
       LET o == lastop' IN
       /\ hvac'.target_temperature =
             IF WritesTarget(o) THEN TargetWritten(o) ELSE hvac.target_temperature
       /\ hvac'.mode = IF WritesMode(o) THEN ModeWritten(o) ELSE hvac.mode
       /\ hvac'.fan_speed = IF WritesFan(o) THEN FanWritten(o) ELSE hvac.fan_speed
      ]_vars

\* a refresh that ran after a command replaced the commanded mode, target
\* temperature and fan speed
C9_Witness ==
    /\ lastop.op = "update" /\ lastop.rec.raw_data /\ raised = "none"
    /\ client.ncalls > 0
    /\ client.lastcall = <<hvac.device_id, "off", 20, "high">>
    /\ Cached(hvac) = <<26, 25, "heat", "high">>

\* both worker threads have delivered their call
AllDone == \A t \in Threads : thr[t].pc = "done"

\* the cached fields a thread's command assigns
Writes(th) ==
    CASE th.op = "set_temperature" ->
            (IF Truthy(th.temperature) THEN {"target_temperature"} ELSE {})
            \cup (IF TruthyStr(th.arg) THEN {"mode"} ELSE {})
      [] th.op = "set_hvac_mode" -> {"mode"}
      [] th.op = "set_fan_mode" -> {"fan_speed"}
      [] OTHER -> {}

\* the thread whose call was not the last one delivered
OtherThread == thr[3 - lastop.thread]

\* C10 (as claimed): once two concurrent commands have both completed, the
\* tuple last delivered to the vendor client equals the cached (mode, target
\* temperature, fan speed).
C10_VendorAgreesWithCache ==
    AllDone => client.lastcall = SetModeCall(hvac)

\* C10 (amended): once both have completed, the tuple last delivered agrees
\* with the cache in every field that the other command, the one whose call
\* was delivered first, did not assign.
C10_AgreesWhereOtherDidNotWrite ==
    AllDone =>
       /\ client.ncalls = 2
       /\ client.lastcall[1] = hvac.device_id
       /\ "mode" \notin Writes(OtherThread) => client.lastcall[2] = hvac.mode
       /\ "target_temperature" \notin Writes(OtherThread) =>
             client.lastcall[3] = hvac.target_temperature
       /\ "fan_speed" \notin Writes(OtherThread) =>
             client.lastcall[4] = hvac.fan_speed

\* set_hvac_mode("heat") and set_fan_mode("high") have both completed, the
\* fan command's call was delivered last, and the vendor was left with the
\* mode from before the mode command
C10_Witness ==
    /\ AllDone
    /\ lastop.op = "set_fan_mode" /\ lastop.arg = "high"
    /\ OtherThread.op = "set_hvac_mode" /\ OtherThread.arg = "heat"
    /\ hvac.mode = "heat" /\ hvac.fan_speed = "high"
    /\ client.lastcall[2] = "cool" /\ client.lastcall[4] = "high"

=============================================================================
